---- MODULE Spec2Model ----
(***************************************************************************)
(* Model of the two edge-function request handlers of fundflow-            *)
(* transparency (make-donation and cast-vote) and of the relational store  *)
(* they share (profiles, projects, milestones, validations, donations,     *)
(* ledger).  Every store call of a handler is one atomic step; handlers of *)
(* different requests interleave between their store calls.                *)
(***************************************************************************)
EXTENDS Integers, Sequences, FiniteSets, TLC

\* ------------------------------------------------------------------ bounds
\* Number of requests admitted past the auth / profile checks in one run:
\* of cast-vote requests alone, of make-donation requests alone, and of both
\* kinds together.
MaxVotes == 3
MaxDonations == 2
MaxCalls == 2
\* Number of requests that may be between two of their store calls at once.
MaxInFlight == 2
\* Number of proof rows submitted for one milestone.
MaxProofs == 1

\* ------------------------------------------------------- program constants
APPROVAL_THRESHOLD == 3

\* ------------------------------------------------------------- input sets
\* Bearer tokens presented by callers: four validators, a donor, an ngo, "u0"
\* (a user without a profile row) and "anon" (a token that resolves to no user).
Tokens == {"v1", "v2", "v3", "v4", "d1", "n1", "u0", "anon"}
\* Rows of public.projects / public.milestones that exist; "p0" and "m0" are
\* ids sent by a caller that reference no row.
Projects == {"p1", "p2"}
Milestones == {"m1"}
ProjectIds == Projects \cup {"p0"}
MilestoneIds == Milestones \cup {"m0"}
Amounts == {-1, 0, 1, 2}
\* Request bodies and tokens of make-donation and of cast-vote.
DonationRequests ==
  [token : {"d1", "u0", "anon"}, projectId : ProjectIds, amount : Amounts]
VoteRequests ==
  [token : Tokens, milestoneId : Milestones, isValid : BOOLEAN]
\* The cast-vote requests sent one at a time, unknown milestone ids included.
SeqVoteRequests ==
  [token : Tokens, milestoneId : MilestoneIds, isValid : BOOLEAN]
\* The requests sent when both handlers are mixed.
MixedDonationRequests ==
  [token : {"d1", "n1"}, projectId : Projects, amount : {-1, 2}]
MixedVoteRequests ==
  [token : {"v1", "v2", "v3", "v4", "d1"}, milestoneId : Milestones, isValid : BOOLEAN]
None == "-"
\* Users that sign up, and the role in the metadata of a signup: a value of
\* app_role, no role, or "admin", a text that app_role does not hold.
SignupUsers == {"s1", "s2", "s3", "s4"}
AppRoles == {"ngo", "donor", "validator"}
SignupRoles == AppRoles \cup {None, "admin"}

VARIABLES
  authUsers,     \* auth.users: set of rows [id, role], role from raw_user_meta_data
  proofs,        \* public.proofs: number of rows, per milestone id
  profiles,      \* public.profiles: set of rows [id, user_id, role]
  funds_raised,  \* public.projects.funds_raised, per project id
  status,        \* public.milestones.status, per milestone id
  validations,   \* public.validations, in insertion order
  donations,     \* public.donations, in insertion order
  ledger,        \* public.ledger, in insertion order
  inflight,      \* the requests being handled, each with its position and locals
  nCalls,        \* requests admitted so far
  storeFailed    \* history: some store call of the write phase returned an error

vars == <<authUsers, proofs, profiles, funds_raised, status, validations, donations,
          ledger, inflight, nCalls, storeFailed>>

tables == <<authUsers, proofs, profiles, funds_raised, status, validations, donations,
            ledger>>

\* ---------------------------------------------------------------- helpers
\* supabase.auth.getUser(token): the user of a bearer token, None if there is none.
getUser(token) == IF token = "anon" THEN None ELSE token

\* The rows of auth.users at the start: the users of this model with the role
\* each gave at signup; "u0" signed up before the signup trigger existed.
InitUsers ==
  { [id |-> u,
     role |-> IF u \in {"v1", "v2", "v3", "v4"} THEN "validator"
              ELSE IF u = "n1" THEN "ngo" ELSE IF u = "d1" THEN "donor" ELSE None] :
    u \in {"v1", "v2", "v3", "v4", "d1", "n1", "u0"} }

\* The rows the signup trigger created for the users of this model.
InitProfiles ==
  { [id |-> "P_" \o u, user_id |-> u,
     role |-> IF u \in {"v1", "v2", "v3", "v4"} THEN "validator"
              ELSE IF u = "n1" THEN "ngo" ELSE "donor"] :
    u \in {"v1", "v2", "v3", "v4", "d1", "n1"} }

\* .from('profiles').select(...).eq('user_id', user.id).single()
\* Variant: a user without a row is given a donor profile.
ProfileOfOrDefault(user) ==
  IF \E p \in profiles : p.user_id = user
  THEN CHOOSE p \in profiles : p.user_id = user
  ELSE [id |-> "P_" \o user, user_id |-> user, role |-> "donor"]
ProfileOf(user) ==
  IF \E p \in profiles : p.user_id = user
  THEN CHOOSE p \in profiles : p.user_id = user
  ELSE [id |-> None, user_id |-> user, role |-> None]

\* profile.role !== 'validator' negated: the role check of cast-vote.
IsValidatorNgoToo(profile) == profile.role # "donor"
IsValidator(profile) == profile.role = "validator"

\* UNIQUE(milestone_id, validator_id) on public.validations.
UniqueViolationSameVote(m, v, isValid) ==
  \E i \in 1..Len(validations) :
     /\ validations[i].milestone_id = m
     /\ validations[i].validator_id = v
     /\ validations[i].is_valid = isValid
UniqueViolation(m, v, isValid) ==
  \E i \in 1..Len(validations) :
     /\ validations[i].milestone_id = m
     /\ validations[i].validator_id = v

\* .from('validations').select('id').eq('milestone_id', m).eq('is_valid', true)
\* Variant: the is_valid filter is missing.
PositiveVotesAll(m) ==
  { i \in 1..Len(validations) : validations[i].milestone_id = m }
PositiveVotes(m) ==
  { i \in 1..Len(validations) :
      validations[i].milestone_id = m /\ validations[i].is_valid }

\* positiveVoteCount >= APPROVAL_THRESHOLD
ThresholdMetStrict(count) == count > APPROVAL_THRESHOLD
ThresholdMetExactly(count) == count = APPROVAL_THRESHOLD
ThresholdMet(count) == count >= APPROVAL_THRESHOLD

\* The sum of the amounts of the donation rows of project p among rows.
RECURSIVE SumAmounts(_, _)
SumAmounts(rows, p) ==
  IF rows = <<>> THEN 0
  ELSE (IF Head(rows).project_id = p THEN Head(rows).amount ELSE 0)
       + SumAmounts(Tail(rows), p)

\* funds_raised + ${amount}, evaluated by the store on the current row when
\* the update of request c is applied.
\* Variants: the update writes the amount itself; it adds one per donation;
\* it adds the amount to a value read when the request inserted its row
\* (the total of the project's earlier donation rows) and writes that back.
NewFundsOverwrite(c) == c.amount
NewFundsCount(c) == funds_raised[c.projectId] + 1
NewFundsReadThenWrite(c) ==
  SumAmounts(SubSeq(donations, 1, c.row - 1), c.projectId) + c.amount
NewFunds(c) == funds_raised[c.projectId] + c.amount

\* .from('profiles').select('id').eq('user_id', user.id).single() of
\* make-donation: the id of the caller's profile, None without a row.
DonorIdOfDonorsOnly(user) ==
  IF ProfileOf(user).role = "donor" THEN ProfileOf(user).id ELSE None
DonorIdOf(user) == ProfileOf(user).id

\* REFERENCES public.milestones(id) on validations.milestone_id: the row exists.
MilestoneExistsAlways(milestoneId) == TRUE
MilestoneExists(milestoneId) == milestoneId \in Milestones

\* .from('validations').insert([row]): the table after the insert.
\* Variant: an upsert keyed on the milestone alone.
ValidationsUpsertOnMilestone(row) ==
  IF \E i \in 1..Len(validations) : validations[i].milestone_id = row.milestone_id
  THEN LET i == CHOOSE j \in 1..Len(validations) :
                    validations[j].milestone_id = row.milestone_id
       IN [validations EXCEPT ![i] = [row EXCEPT !.id = i]]
  ELSE Append(validations, row)
ValidationsInsert(row) == Append(validations, row)

\* .from('donations').insert([row]): the table after the insert.
\* Variant: the amount is added to the donor's earlier row for the project.
DonationsInsertMerged(row) ==
  IF \E i \in 1..Len(donations) :
       donations[i].donor_id = row.donor_id /\ donations[i].project_id = row.project_id
  THEN LET i == CHOOSE j \in 1..Len(donations) :
                    donations[j].donor_id = row.donor_id
                    /\ donations[j].project_id = row.project_id
       IN [donations EXCEPT ![i].amount = @ + row.amount]
  ELSE Append(donations, row)
DonationsInsert(row) == Append(donations, row)

\* .update({ funds_raised: ... }).eq('id', projectId): the funds of every project
\* after the update of request c.  Variant: the .eq filter is missing.
FundsAfterAllProjects(c) == [p \in Projects |-> funds_raised[p] + c.amount]
FundsAfter(c) == [funds_raised EXCEPT ![c.projectId] = NewFunds(c)]

\* REFERENCES public.projects(id) on donations.project_id: the row exists.
ProjectExistsAlways(projectId) == TRUE
ProjectExists(projectId) == projectId \in Projects

\* .update({ status: 'COMPLETED' }): the status written by request c.
NewStatusToggle(c) ==
  IF status[c.milestoneId] = "COMPLETED" THEN "PENDING" ELSE "COMPLETED"
NewStatus(c) == "COMPLETED"

\* .from('ledger').insert([entry]): the ledger after the insert.
LedgerInsertReplace(entry) == <<entry>>
LedgerInsertTwice(entry) == Append(Append(ledger, entry), entry)
LedgerInsert(entry) == Append(ledger, entry)

NoCall ==
  [id |-> 0, op |-> None, token |-> None, user |-> None, projectId |-> None, amount |-> 0,
   milestoneId |-> None, isValid |-> FALSE, pc |-> "done", profile |-> None,
   row |-> 0, positiveVoteCount |-> 0, milestoneUpdated |-> FALSE,
   failed |-> FALSE, pendingAtCount |-> FALSE, status |-> 0, viaView |-> FALSE]

\* The lowest request slot that is free.
FreeId == CHOOSE i \in 1..(Cardinality(inflight) + 1) : \A c \in inflight : c.id # i

\* A request whose response is built and not yet returned.
Responding == {c \in inflight : c.pc = "done"}

\* A request moves from one store call to its next one, or builds its response.
Advance(c, d) ==
  /\ inflight' = (inflight \ {c}) \cup {d}
  /\ storeFailed' = (storeFailed \/ (d.failed /\ ~c.failed))
  /\ UNCHANGED nCalls

\* if (ledgerError) console.error(...): make-donation goes on to its success response.
DonationLedgerFailedFatal(c) == [c EXCEPT !.pc = "done", !.status = 500, !.failed = TRUE]
DonationLedgerFailed(c) == [c EXCEPT !.pc = "done", !.status = 200, !.failed = TRUE]

\* if (countError) return 500 'Failed to count votes'.
VoteCountFailedSwallowed(c) == [c EXCEPT !.pc = "done", !.status = 200, !.failed = TRUE]
VoteCountFailed(c) == [c EXCEPT !.pc = "done", !.status = 500, !.failed = TRUE]

\* if (milestoneUpdateError) console.error(...): milestoneUpdated stays false and
\* cast-vote goes on to its success response.
VoteUpdateFailedFlagSet(c) ==
  [c EXCEPT !.pc = "done", !.status = 200, !.failed = TRUE, !.milestoneUpdated = TRUE]
VoteUpdateFailedThenRelease(c) == [c EXCEPT !.pc = "v_ledger", !.failed = TRUE]
VoteUpdateFailed(c) == [c EXCEPT !.pc = "done", !.status = 200, !.failed = TRUE]

Init ==
  /\ authUsers = InitUsers
  /\ proofs = [m \in Milestones |-> 0]
  /\ profiles = InitProfiles
  /\ funds_raised = [p \in Projects |-> 0]
  /\ status = [m \in Milestones |-> "PENDING"]
  /\ validations = <<>>
  /\ donations = <<>>
  /\ ledger = <<>>
  /\ inflight = {}
  /\ nCalls = 0
  /\ storeFailed = FALSE

\* return new Response(...): the response leaves the handler.  The step touches
\* nothing but the request itself, so it is taken before any other request moves.
Respond(c) ==
  /\ c \in Responding
  /\ inflight' = inflight \ {c}
  /\ UNCHANGED <<tables, nCalls, storeFailed>>

\* ----------------------------------------------------------- make-donation
\* Request parsing, getUser and the profile lookup: 401, 404 or admitted.
DonationBegin(token, projectId, amount, err) ==
  LET authError == (err = "auth")
      profileError == (err = "profile")
      user == getUser(token)
      profile == DonorIdOf(user)
      c == [NoCall EXCEPT !.op = "make-donation", !.token = token,
                          !.projectId = projectId, !.amount = amount]
  IN
  /\ UNCHANGED tables
  /\ IF authError \/ user = None
     THEN /\ inflight' = inflight \cup {[c EXCEPT !.status = 401]}
          /\ UNCHANGED <<nCalls, storeFailed>>
     ELSE IF profileError \/ profile = None
     THEN /\ inflight' = inflight \cup {[c EXCEPT !.user = user, !.status = 404]}
          /\ UNCHANGED <<nCalls, storeFailed>>
     ELSE /\ inflight' = inflight \cup
                {[c EXCEPT !.id = FreeId, !.user = user, !.pc = "d_insert",
                           !.profile = profile]}
          /\ nCalls' = nCalls + 1
          /\ UNCHANGED storeFailed

\* .from('donations').insert([{donor_id, project_id, amount}]).select().single()
DonationInsert(c, fail) ==
  /\ c \in inflight /\ c.pc = "d_insert"
  /\ IF fail \/ ~ProjectExists(c.projectId)
     THEN /\ Advance(c, [c EXCEPT !.pc = "done", !.status = 500, !.failed = TRUE])
          /\ UNCHANGED tables
     ELSE /\ donations' = DonationsInsert(
                [id |-> Len(donations) + 1, donor_id |-> c.profile,
                 project_id |-> c.projectId, amount |-> c.amount])
          /\ Advance(c, [c EXCEPT !.pc = "d_update", !.row = Len(donations) + 1])
          /\ UNCHANGED <<authUsers, proofs, profiles, funds_raised, status, validations, ledger>>

\* .from('projects').update({funds_raised: sql`funds_raised + ${amount}`}).eq('id', projectId)
DonationUpdate(c, fail) ==
  /\ c \in inflight /\ c.pc = "d_update"
  /\ IF fail
     THEN /\ Advance(c, [c EXCEPT !.pc = "done", !.status = 500, !.failed = TRUE])
          /\ UNCHANGED tables
     ELSE /\ funds_raised' = FundsAfter(c)
          /\ Advance(c, [c EXCEPT !.pc = "d_ledger"])
          /\ UNCHANGED <<authUsers, proofs, profiles, status, validations, donations, ledger>>

\* .from('ledger').insert([{event_type: 'donation', details}]); an error is only logged.
DonationLedger(c, fail) ==
  /\ c \in inflight /\ c.pc = "d_ledger"
  /\ IF fail
     THEN /\ Advance(c, DonationLedgerFailed(c))
          /\ UNCHANGED tables
     ELSE /\ ledger' = LedgerInsert(
                [event_type |-> "donation", ref |-> c.row, donor_id |-> c.profile,
                 project_id |-> c.projectId, amount |-> c.amount,
                 milestone_id |-> None, positive_votes |-> 0])
          /\ Advance(c, [c EXCEPT !.pc = "done", !.status = 200])
          /\ UNCHANGED <<authUsers, proofs, profiles, funds_raised, status, validations, donations>>

\* --------------------------------------------------------------- cast-vote
\* Request parsing, getUser and the profile / role check: 401, 403 or admitted.
\* viaView records that the request was sent by the validator view's buttons.
VoteBeginVia(token, milestoneId, isValid, err, viaView) ==
  LET authError == (err = "auth")
      profileError == (err = "profile")
      user == getUser(token)
      profile == ProfileOf(user)
      c == [NoCall EXCEPT !.op = "cast-vote", !.token = token,
                          !.milestoneId = milestoneId, !.isValid = isValid,
                          !.viaView = viaView]
  IN
  /\ UNCHANGED tables
  /\ IF authError \/ user = None
     THEN /\ inflight' = inflight \cup {[c EXCEPT !.status = 401]}
          /\ UNCHANGED <<nCalls, storeFailed>>
     ELSE IF profileError \/ profile.id = None \/ ~IsValidator(profile)
     THEN /\ inflight' = inflight \cup {[c EXCEPT !.user = user, !.status = 403]}
          /\ UNCHANGED <<nCalls, storeFailed>>
     ELSE /\ inflight' = inflight \cup
                {[c EXCEPT !.id = FreeId, !.user = user, !.pc = "v_insert",
                           !.profile = profile.id]}
          /\ nCalls' = nCalls + 1
          /\ UNCHANGED storeFailed

\* A cast-vote request sent to the function directly.
VoteBegin(token, milestoneId, isValid, err) ==
  VoteBeginVia(token, milestoneId, isValid, err, FALSE)

\* ------------------------------------------------------------------ signup
\* COALESCE(NEW.raw_user_meta_data->>'role', 'donor'): the role of the new profile.
RoleOfAlwaysDonor(role) == "donor"
RoleOf(role) == IF role = None THEN "donor" ELSE role

\* The insert into auth.users and, in the same transaction, the trigger
\* on_auth_user_created running handle_new_user.  The insert fails on a user
\* that exists; the trigger fails on a role that app_role does not hold and on
\* the UNIQUE user_id of profiles; a failure leaves no row of either table.
SignUp(user, role) ==
  /\ IF \/ \E a \in authUsers : a.id = user
        \/ RoleOf(role) \notin AppRoles
        \/ \E p \in profiles : p.user_id = user
     THEN UNCHANGED <<authUsers, profiles>>
     ELSE /\ authUsers' = authUsers \cup {[id |-> user, role |-> role]}
          /\ profiles' = profiles \cup
                {[id |-> "P_" \o user, user_id |-> user, role |-> RoleOf(role)]}
  /\ UNCHANGED <<proofs, funds_raised, status, validations, donations, ledger,
                 inflight, nCalls, storeFailed>>

\* ------------------------------------------------------------ client views
\* disabled={... || milestone.proofs.length === 0} on the Reject / Approve buttons.
ButtonsEnabledAlways(milestoneId) == TRUE
ButtonsEnabled(milestoneId) == proofs[milestoneId] > 0

\* castVote of the validator view: a press of an enabled button by a signed-in
\* user with a profile invokes cast-vote.
castVote(token, milestoneId, isValid, err) ==
  /\ ButtonsEnabled(milestoneId)
  /\ ProfileOf(getUser(token)).id # None
  /\ VoteBeginVia(token, milestoneId, isValid, err, TRUE)

\* uploadProof of the ngo view: one more row in public.proofs for the milestone.
uploadProof(milestoneId) ==
  /\ proofs[milestoneId] < MaxProofs
  /\ proofs' = [proofs EXCEPT ![milestoneId] = @ + 1]
  /\ UNCHANGED <<authUsers, profiles, funds_raised, status, validations, donations,
                 ledger, inflight, nCalls, storeFailed>>

\* .from('validations').insert([{milestone_id, validator_id, is_valid}]).select().single()
VoteInsert(c, fail) ==
  /\ c \in inflight /\ c.pc = "v_insert"
  /\ IF \/ fail
        \/ ~MilestoneExists(c.milestoneId)
        \/ UniqueViolation(c.milestoneId, c.profile, c.isValid)
     THEN /\ Advance(c, [c EXCEPT !.pc = "done", !.status = 500, !.failed = TRUE])
          /\ UNCHANGED tables
     ELSE /\ validations' = ValidationsInsert(
                [id |-> Len(validations) + 1, milestone_id |-> c.milestoneId,
                 validator_id |-> c.profile, is_valid |-> c.isValid])
          /\ Advance(c, [c EXCEPT !.pc = "v_count", !.row = Len(validations) + 1])
          /\ UNCHANGED <<authUsers, proofs, profiles, funds_raised, status, donations, ledger>>

\* The count query and the threshold test that follows it.
VoteCount(c, fail) ==
  /\ c \in inflight /\ c.pc = "v_count"
  /\ UNCHANGED tables
  /\ IF fail
     THEN Advance(c, VoteCountFailed(c))
     ELSE LET positiveVoteCount == Cardinality(PositiveVotes(c.milestoneId))
              d == [c EXCEPT !.positiveVoteCount = positiveVoteCount,
                             !.pendingAtCount = (status[c.milestoneId] = "PENDING")]
          IN IF ThresholdMet(positiveVoteCount)
             THEN Advance(c, [d EXCEPT !.pc = "v_update"])
             ELSE Advance(c, [d EXCEPT !.pc = "done", !.status = 200])

\* .from('milestones').update({status: 'COMPLETED'}).eq('id', milestoneId); an error is only logged.
VoteUpdate(c, fail) ==
  /\ c \in inflight /\ c.pc = "v_update"
  /\ IF fail
     THEN /\ Advance(c, VoteUpdateFailed(c))
          /\ UNCHANGED tables
     ELSE /\ status' = [status EXCEPT ![c.milestoneId] = NewStatus(c)]
          /\ Advance(c, [c EXCEPT !.pc = "v_ledger", !.milestoneUpdated = TRUE])
          /\ UNCHANGED <<authUsers, proofs, profiles, funds_raised, validations, donations, ledger>>

\* .from('ledger').insert([{event_type: 'release', details}]); an error is only logged.
VoteLedger(c, fail) ==
  /\ c \in inflight /\ c.pc = "v_ledger"
  /\ IF fail
     THEN /\ Advance(c, [c EXCEPT !.pc = "done", !.status = 200, !.failed = TRUE])
          /\ UNCHANGED tables
     ELSE /\ ledger' = LedgerInsert(
                [event_type |-> "release", ref |-> c.row, donor_id |-> None,
                 project_id |-> None, amount |-> 0,
                 milestone_id |-> c.milestoneId,
                 positive_votes |-> c.positiveVoteCount])
          /\ Advance(c, [c EXCEPT !.pc = "done", !.status = 200])
          /\ UNCHANGED <<authUsers, proofs, profiles, funds_raised, status, validations, donations>>

\* The outcomes of the two lookups that precede the writes: both succeed, the
\* auth service returns an error, or the profile query returns an error.
LookupErrors == {"none", "auth", "profile"}

\* Validators are interchangeable to the handlers, which use a profile id only
\* as an opaque key.  A validator with no validation row and no request being
\* handled is represented by the first such one of ValidatorOrder.
ValidatorOrder == <<"v1", "v2", "v3", "v4">>
Unused(t) ==
  /\ \A i \in 1..Len(validations) : validations[i].validator_id # ProfileOf(getUser(t)).id
  /\ \A c \in inflight : c.token # t
Representative(t) ==
  \A i, j \in 1..Len(ValidatorOrder) :
     (ValidatorOrder[j] = t /\ i < j /\ Unused(t)) => ~Unused(ValidatorOrder[i])

\* A new request arrives while fewer than conc requests are being handled and
\* fewer than limit requests have been admitted.
Arrival(limit, conc) ==
  /\ Responding = {}
  /\ nCalls < limit
  /\ Cardinality(inflight) < conc

DonationNext(limit, conc, requests) ==
  \/ \E r \in requests, err \in LookupErrors :
        Arrival(limit, conc) /\ DonationBegin(r.token, r.projectId, r.amount, err)
  \/ \E c \in inflight, fail \in BOOLEAN : Responding = {} /\ DonationInsert(c, fail)
  \/ \E c \in inflight, fail \in BOOLEAN : Responding = {} /\ DonationUpdate(c, fail)
  \/ \E c \in inflight, fail \in BOOLEAN : Responding = {} /\ DonationLedger(c, fail)

VoteNext(limit, conc, requests) ==
  \/ \E r \in requests, err \in LookupErrors :
        /\ Arrival(limit, conc) /\ Representative(r.token)
        /\ VoteBegin(r.token, r.milestoneId, r.isValid, err)
  \/ \E c \in inflight, fail \in BOOLEAN : Responding = {} /\ VoteInsert(c, fail)
  \/ \E c \in inflight, fail \in BOOLEAN : Responding = {} /\ VoteCount(c, fail)
  \/ \E c \in inflight, fail \in BOOLEAN : Responding = {} /\ VoteUpdate(c, fail)
  \/ \E c \in inflight, fail \in BOOLEAN : Responding = {} /\ VoteLedger(c, fail)

Returns == \E c \in inflight : Respond(c)

\* The store after v1 and v2 have each approved milestone m1, both requests
\* handled to their responses.
InitVoted ==
  /\ authUsers = InitUsers
  /\ proofs = [m \in Milestones |-> 0]
  /\ profiles = InitProfiles
  /\ funds_raised = [p \in Projects |-> 0]
  /\ status = [m \in Milestones |-> "PENDING"]
  /\ validations = << [id |-> 1, milestone_id |-> "m1", validator_id |-> "P_v1", is_valid |-> TRUE],
                      [id |-> 2, milestone_id |-> "m1", validator_id |-> "P_v2", is_valid |-> TRUE] >>
  /\ donations = <<>>
  /\ ledger = <<>>
  /\ inflight = {}
  /\ nCalls = 0
  /\ storeFailed = FALSE

\* Requests of both handlers, interleaved, on a store that holds two votes.
Next ==
  \/ DonationNext(MaxCalls, MaxInFlight, MixedDonationRequests)
  \/ VoteNext(MaxCalls, MaxInFlight, MixedVoteRequests)
  \/ Returns
Spec == InitVoted /\ [][Next]_vars

\* cast-vote requests only, interleaved.
NextVote == VoteNext(MaxVotes, MaxInFlight, VoteRequests) \/ Returns
SpecVote == Init /\ [][NextVote]_vars

\* cast-vote requests only, each one handled to its response before the next arrives.
NextVoteSeq == VoteNext(MaxVotes + 1, 1, SeqVoteRequests) \/ Returns
SpecVoteSeq == Init /\ [][NextVoteSeq]_vars

\* Requests of both handlers from every kind of caller, one at a time, on a
\* store that holds two votes.
AuthDonationRequests ==
  [token : {"d1", "u0", "anon"}, projectId : {"p1"}, amount : {2}]
AuthVoteRequests ==
  [token : {"v3", "d1", "u0", "anon"}, milestoneId : Milestones, isValid : BOOLEAN]
NextAuth ==
  \/ DonationNext(MaxCalls, 1, AuthDonationRequests)
  \/ VoteNext(MaxCalls, 1, AuthVoteRequests)
  \/ Returns
SpecAuth == InitVoted /\ [][NextAuth]_vars

\* Signups on a database that holds no user yet.
InitEmpty ==
  /\ authUsers = {}
  /\ proofs = [m \in Milestones |-> 0]
  /\ profiles = {}
  /\ funds_raised = [p \in Projects |-> 0]
  /\ status = [m \in Milestones |-> "PENDING"]
  /\ validations = <<>>
  /\ donations = <<>>
  /\ ledger = <<>>
  /\ inflight = {}
  /\ nCalls = 0
  /\ storeFailed = FALSE
NextSignUp == \E u \in SignupUsers, role \in SignupRoles : SignUp(u, role)
SpecSignUp == InitEmpty /\ [][NextSignUp]_vars

\* cast-vote requests one at a time, sent directly or by the validator view,
\* while proofs are uploaded.
ProofVoteRequests ==
  [token : {"v1", "v2", "v3"}, milestoneId : Milestones, isValid : BOOLEAN]
NextProof ==
  \/ \E m \in Milestones : Responding = {} /\ uploadProof(m)
  \/ \E r \in ProofVoteRequests, err \in LookupErrors :
        /\ Arrival(MaxVotes, 1) /\ Representative(r.token)
        /\ castVote(r.token, r.milestoneId, r.isValid, err)
  \/ VoteNext(MaxVotes, 1, ProofVoteRequests)
  \/ Returns
SpecProof == Init /\ [][NextProof]_vars

\* make-donation requests one at a time from callers of each role.
RoleDonationRequests ==
  [token : {"d1", "n1", "v1"}, projectId : {"p1"}, amount : {1, 2}]
NextRole == DonationNext(MaxDonations, 1, RoleDonationRequests) \/ Returns
SpecRole == Init /\ [][NextRole]_vars

\* make-donation requests only, interleaved.
NextDonation == DonationNext(MaxDonations, MaxInFlight, DonationRequests) \/ Returns
SpecDonation == Init /\ [][NextDonation]_vars

\* ------------------------------------------------------------ properties
\* Vocabulary of the properties below.
VoteCalls == {c \in inflight : c.op = "cast-vote"}
DonationCalls == {c \in inflight : c.op = "make-donation"}

\* Request c, between two store calls, takes its next step.
Stepped(c) == c \in inflight /\ c.pc # "done" /\ c \notin inflight'
\* The same request after that step.
After(c) == CHOOSE d \in inflight' : d.id = c.id

Releases(m) ==
  {i \in 1..Len(ledger) : ledger[i].event_type = "release" /\ ledger[i].milestone_id = m}
DonationEntries(ref) ==
  {i \in 1..Len(ledger) : ledger[i].event_type = "donation" /\ ledger[i].ref = ref}

\* The total of the amounts of a set of requests.
RECURSIVE TotalAmount(_)
TotalAmount(cs) ==
  IF cs = {} THEN 0
  ELSE LET c == CHOOSE x \in cs : TRUE IN c.amount + TotalAmount(cs \ {c})

\* Donations to project p whose row is inserted and whose increment is still to come.
AwaitingUpdate(p) == {c \in DonationCalls : c.pc = "d_update" /\ c.projectId = p}

\* C1 (as stated): in a run of cast-vote requests handled one after the other
\* with no store error, in which every recorded vote approves, the ledger never
\* holds more than one 'release' entry for a milestone, however many approving
\* votes follow the third.
C1_OneReleaseSequential ==
  (~storeFailed /\ \A i \in 1..Len(validations) : validations[i].is_valid)
    => \A m \in Milestones : Cardinality(Releases(m)) <= 1

\* C2 (as stated): of two cast-vote requests that approve the same milestone,
\* both counted at least APPROVAL_THRESHOLD votes while it was still PENDING,
\* at most one performs the status update, and a request that counted while
\* PENDING never leaves a second 'release' entry behind.
C2_OneCompletionConcurrent ==
  /\ \A c1, c2 \in VoteCalls :
        ( /\ c1.id # c2.id
          /\ c1.milestoneId = c2.milestoneId
          /\ c1.isValid /\ c2.isValid
          /\ c1.pendingAtCount /\ c2.pendingAtCount
          /\ ThresholdMet(c1.positiveVoteCount) /\ ThresholdMet(c2.positiveVoteCount) )
        => ~(c1.milestoneUpdated /\ c2.milestoneUpdated)
  /\ \A c \in VoteCalls :
        (c.pc = "done" /\ c.isValid /\ c.pendingAtCount /\ c.milestoneUpdated)
        => Cardinality(Releases(c.milestoneId)) <= 1

\* C3: a make-donation request with a positive amount A for project P changes
\* funds_raised only in its update step, which adds exactly A to P and leaves
\* every other project alone; its insert step appends exactly the row
\* (donor, P, A) and its ledger step exactly one 'donation' entry with A and P;
\* and a request that returns success with every store call succeeded has
\* exactly one such row and exactly one such entry.
C3_StepEffects ==
  \A c \in DonationCalls : (Stepped(c) /\ c.amount > 0) =>
    LET d == After(c) IN
    /\ IF c.pc = "d_update" /\ d.pc = "d_ledger"
       THEN funds_raised' = [funds_raised EXCEPT ![c.projectId] = @ + c.amount]
       ELSE funds_raised' = funds_raised
    /\ IF c.pc = "d_insert" /\ d.pc = "d_update"
       THEN /\ Len(donations') = Len(donations) + 1
            /\ SubSeq(donations', 1, Len(donations)) = donations
            /\ donations'[d.row].donor_id = ProfileOf(c.user).id
            /\ donations'[d.row].project_id = c.projectId
            /\ donations'[d.row].amount = c.amount
       ELSE donations' = donations
    /\ IF c.pc = "d_ledger" /\ ~d.failed
       THEN /\ Len(ledger') = Len(ledger) + 1
            /\ SubSeq(ledger', 1, Len(ledger)) = ledger
            /\ ledger'[Len(ledger')].event_type = "donation"
            /\ ledger'[Len(ledger')].amount = c.amount
            /\ ledger'[Len(ledger')].project_id = c.projectId
       ELSE ledger' = ledger
C3_Returned ==
  \A c \in DonationCalls :
    (c.pc = "done" /\ c.status = 200 /\ ~c.failed /\ c.amount > 0) =>
      /\ Cardinality({i \in 1..Len(donations) : donations[i].id = c.row}) = 1
      /\ donations[c.row].project_id = c.projectId
      /\ donations[c.row].amount = c.amount
      /\ Cardinality(DonationEntries(c.row)) = 1
      /\ \A i \in DonationEntries(c.row) :
            ledger[i].amount = c.amount /\ ledger[i].project_id = c.projectId
C3_DonationExact == [][C3_StepEffects]_vars /\ []C3_Returned
\* A second donation of 2 to a project that already holds 1 has returned success.
C3_Witness ==
  \E c \in DonationCalls :
    /\ c.pc = "done" /\ c.status = 200 /\ ~c.failed /\ c.amount = 2
    /\ c.row = 2 /\ funds_raised[c.projectId] = 3 /\ ~storeFailed

\* C4 (as stated): a make-donation request with amount <= 0 mutates nothing: it
\* inserts no donation row, no table holds a non-positive amount, and it
\* returns a 4xx status.
C4_InvalidAmountRejected ==
  /\ \A c \in DonationCalls : c.amount <= 0 =>
        /\ c.row = 0
        /\ c.pc \notin {"d_update", "d_ledger"}
        /\ (c.pc = "done" /\ c.user # None) => c.status \in 400..499
  /\ \A i \in 1..Len(donations) : donations[i].amount > 0

\* C5 (as stated): no step makes the funds_raised of a project smaller.
C5_FundsMonotone ==
  [][\A p \in Projects : funds_raised'[p] >= funds_raised[p]]_vars

\* C6: the validations table never holds two rows with the same
\* (milestone_id, validator_id), and a cast-vote request whose validator
\* already has a row for the milestone fails at its insert with an error
\* response, whichever value of isValid it carries, and adds no row.
C6_Unique ==
  \A i, j \in 1..Len(validations) :
    (validations[i].milestone_id = validations[j].milestone_id
       /\ validations[i].validator_id = validations[j].validator_id) => i = j
C6_SecondVoteRejected ==
  \A c \in VoteCalls :
    (Stepped(c) /\ c.pc = "v_insert" /\ UniqueViolation(c.milestoneId, c.profile, c.isValid)) =>
      /\ validations' = validations
      /\ After(c).pc = "done"
      /\ After(c).status >= 400
C6_OneVotePerValidator == []C6_Unique /\ [][C6_SecondVoteRejected]_vars
\* A validator who rejected m1 has sent an approving vote for it and got an error.
C6_Witness ==
  \E c \in VoteCalls :
    /\ c.pc = "done" /\ c.status = 500 /\ c.isValid /\ c.row = 0
    /\ \E i \in 1..Len(validations) :
          /\ validations[i].milestone_id = c.milestoneId
          /\ validations[i].validator_id = c.profile
          /\ ~validations[i].is_valid

\* C7: a cast-vote request whose token resolves to a user whose profile is
\* missing or has a role other than 'validator' gets 403 and never reaches the
\* validation insert; the step that rejects it leaves every table unchanged.
C7_NotAdmitted ==
  \A c \in VoteCalls :
    (c.user # None /\ ProfileOf(c.user).role # "validator") =>
      c.pc = "done" /\ c.status = 403 /\ c.row = 0
C7_RejectFrame ==
  \A d \in inflight' \ inflight :
    (d.op = "cast-vote" /\ d.status = 403) =>
      validations' = validations /\ status' = status /\ ledger' = ledger
C7_NonValidatorForbidden == []C7_NotAdmitted /\ [][C7_RejectFrame]_vars
\* An ngo has been refused while a validator's vote is recorded.
C7_Witness ==
  /\ \E c \in VoteCalls : c.token = "n1" /\ c.pc = "done" /\ c.status = 403
  /\ Len(validations) >= 1

\* C8: a cast-vote request that returns success with every store call
\* succeeded, and whose own row is the third approving row of its milestone,
\* has set the milestone COMPLETED and has appended exactly one 'release'
\* entry, which holds the milestone id, the id of its validation row and the
\* count it read, a count of at least APPROVAL_THRESHOLD.
IsThirdApproval(c) ==
  /\ c.row \in PositiveVotes(c.milestoneId)
  /\ Cardinality({i \in PositiveVotes(c.milestoneId) : i <= c.row}) = APPROVAL_THRESHOLD
C8_ThirdApprovalCompletes ==
  \A c \in VoteCalls :
    (c.pc = "done" /\ c.status = 200 /\ ~c.failed /\ IsThirdApproval(c)) =>
      /\ status[c.milestoneId] = "COMPLETED"
      /\ c.milestoneUpdated
      /\ c.positiveVoteCount >= APPROVAL_THRESHOLD
      /\ c.positiveVoteCount <= Cardinality(PositiveVotes(c.milestoneId))
      /\ Cardinality({i \in Releases(c.milestoneId) : ledger[i].ref = c.row}) = 1
      /\ \A i \in Releases(c.milestoneId) :
            ledger[i].ref = c.row => ledger[i].positive_votes = c.positiveVoteCount
\* The third approval has returned and m1 is COMPLETED.
C8_Witness ==
  \E c \in VoteCalls :
    /\ c.pc = "done" /\ c.status = 200 /\ ~c.failed /\ IsThirdApproval(c)
    /\ c.row = 3 /\ c.positiveVoteCount = 3
    /\ status[c.milestoneId] = "COMPLETED"
    /\ Cardinality(Releases(c.milestoneId)) = 1

\* C9: when no make-donation request is between two store calls and no store
\* call has returned an error, the funds_raised of every project equals the
\* sum of the amounts of its donation rows.
C9_FundsEqualDonations ==
  ({c \in DonationCalls : c.pc # "done"} = {} /\ ~storeFailed) =>
    \A p \in Projects : funds_raised[p] = SumAmounts(donations, p)
\* Two donations, 1 and 2, to p1 have been handled.
C9_Witness ==
  /\ DonationCalls = {} /\ ~storeFailed
  /\ Len(donations) = 2
  /\ funds_raised["p1"] = 3

\* C10: in every interleaving of make-donation requests in which no store call
\* has returned an error, funds_raised of a project holds exactly the amounts
\* of the requests whose update has been applied: it equals the sum of the
\* project's donation rows less the amounts of the requests that have inserted
\* their row and not yet updated.  No increment is lost or applied twice.
C10_NoLostUpdate ==
  ~storeFailed =>
    \A p \in Projects :
      funds_raised[p] = SumAmounts(donations, p) - TotalAmount(AwaitingUpdate(p))
\* Two requests for the same project were both between insert and update, the
\* later row was applied first, and both increments are in funds_raised.
C10_Witness ==
  \E c1, c2 \in DonationCalls :
    /\ c1.projectId = c2.projectId
    /\ c1.pc = "d_ledger" /\ c2.pc = "d_update"
    /\ c1.row = 2 /\ c2.row = 1
    /\ c1.amount = 2 /\ c2.amount = 1
    /\ funds_raised[c1.projectId] = 2
    /\ ~storeFailed

\* C11: a milestone's status starts PENDING; the only change of status any
\* step makes is PENDING to COMPLETED, and a milestone that is COMPLETED is
\* COMPLETED in every later state.
C11_Transition ==
  \A m \in Milestones :
    /\ status[m] = "COMPLETED" => status'[m] = "COMPLETED"
    /\ status'[m] # status[m] => (status[m] = "PENDING" /\ status'[m] = "COMPLETED")
C11_StatusMachine ==
  /\ \A m \in Milestones : status[m] = "PENDING"
  /\ [][C11_Transition]_vars
\* m1 is COMPLETED and two requests have each written its status.
C11_Witness ==
  /\ status["m1"] = "COMPLETED"
  /\ \E c, d \in VoteCalls : c.id # d.id /\ c.milestoneUpdated /\ d.milestoneUpdated

\* C12: a cast-vote request's milestone_completed becomes true only in a step
\* that takes the milestone from PENDING to COMPLETED, so that at most one
\* request returns milestone_completed = true; and the positive_votes a
\* request returns is the number of approving rows it read after its insert.
C12_FlagOnlyOnCompletion ==
  \A c \in VoteCalls :
    (Stepped(c) /\ ~c.milestoneUpdated /\ After(c).milestoneUpdated) =>
      (status[c.milestoneId] = "PENDING" /\ status'[c.milestoneId] = "COMPLETED")
C12_CountRead ==
  \A c \in VoteCalls :
    (Stepped(c) /\ c.pc = "v_count" /\ ~After(c).failed) =>
      /\ After(c).positiveVoteCount = Cardinality(PositiveVotes(c.milestoneId))
      /\ c.row \in 1..Len(validations)
C12_OneTrue ==
  Cardinality({c \in VoteCalls : c.pc = "done" /\ c.status = 200 /\ c.milestoneUpdated}) <= 1
C12_CompletedFlagExact ==
  /\ [][C12_FlagOnlyOnCompletion /\ C12_CountRead]_vars
  /\ []C12_OneTrue

\* C13: the ledger is append-only. Every step leaves the entries already in
\* the ledger as they are, in their places, so the length never decreases;
\* and every entry is a 'donation' or a 'release'.
C13_Prefix ==
  /\ Len(ledger') >= Len(ledger)
  /\ SubSeq(ledger', 1, Len(ledger)) = ledger
C13_EventTypes ==
  \A i \in 1..Len(ledger) : ledger[i].event_type \in {"donation", "release"}
C13_AppendOnly == [][C13_Prefix]_vars /\ []C13_EventTypes
\* The ledger holds a release and a donation entry.
C13_Witness ==
  /\ Len(ledger) >= 2
  /\ \E i, j \in 1..Len(ledger) :
       ledger[i].event_type = "release" /\ ledger[j].event_type = "donation"

\* C14: when make-donation's donation insert and funds update succeeded and
\* its ledger insert fails, the request still returns success with its
\* donation row: the step changes no table, so the row and the increment stay
\* and the ledger gets no entry for the donation.
C14_LedgerFailureStep ==
  \A c \in DonationCalls :
    (Stepped(c) /\ c.pc = "d_ledger" /\ After(c).failed) =>
      /\ After(c).pc = "done" /\ After(c).status = 200
      /\ After(c).row = c.row
      /\ UNCHANGED tables
C14_LedgerFailureReturned ==
  \A c \in DonationCalls :
    (c.pc = "done" /\ c.failed /\ c.row # 0 /\ c.status < 400) =>
      /\ c.status = 200
      /\ c.row \in 1..Len(donations)
      /\ donations[c.row].project_id = c.projectId
      /\ donations[c.row].amount = c.amount
      /\ DonationEntries(c.row) = {}
C14_LedgerFailureNonFatal ==
  [][C14_LedgerFailureStep]_vars /\ []C14_LedgerFailureReturned
\* A donation of a positive amount has returned success after its ledger insert
\* failed: the project's funds hold it and the ledger has no entry.
C14_Witness ==
  \E c \in DonationCalls :
    /\ c.pc = "done" /\ c.status = 200 /\ c.failed /\ c.amount > 0
    /\ funds_raised[c.projectId] = c.amount
    /\ Len(donations) = 1 /\ ledger = <<>>

\* C15: when cast-vote's milestone update fails, the request still returns
\* success with milestone_completed = false: the step changes no table, so the
\* validation row stays, the milestone keeps its status and the ledger gets no
\* 'release' entry for the vote.
C15_UpdateFailureStep ==
  \A c \in VoteCalls :
    (Stepped(c) /\ c.pc = "v_update" /\ After(c).failed) =>
      /\ After(c).pc = "done" /\ After(c).status = 200
      /\ ~After(c).milestoneUpdated
      /\ UNCHANGED tables
C15_UpdateFailureReturned ==
  \A c \in VoteCalls :
    (c.pc = "done" /\ c.status = 200 /\ c.failed /\ ~c.milestoneUpdated) =>
      /\ c.row \in 1..Len(validations)
      /\ validations[c.row].milestone_id = c.milestoneId
      /\ validations[c.row].is_valid = c.isValid
      /\ \A i \in Releases(c.milestoneId) : ledger[i].ref # c.row
C15_UpdateFailureNonFatal ==
  [][C15_UpdateFailureStep]_vars /\ []C15_UpdateFailureReturned
\* The third approval has returned success after its milestone update failed:
\* m1 is still PENDING and nothing was released.
C15_Witness ==
  \E c \in VoteCalls :
    /\ c.pc = "done" /\ c.status = 200 /\ c.failed /\ ~c.milestoneUpdated
    /\ c.positiveVoteCount >= APPROVAL_THRESHOLD
    /\ status[c.milestoneId] = "PENDING"
    /\ Releases(c.milestoneId) = {}

\* C16: a request whose token resolves to no user is answered 401 by both
\* handlers, and a make-donation request whose user has no profile row is
\* answered 404; such a request is answered on arrival, it never reaches a
\* store write, and its arrival changes no table.
C16_Unresolved(c) ==
  \/ c.user = None
  \/ c.op = "make-donation" /\ \A p \in profiles : p.user_id # c.user
C16_Rejected ==
  \A c \in inflight :
    /\ c.user = None => (c.pc = "done" /\ c.status = 401 /\ c.row = 0)
    /\ (c.user # None /\ C16_Unresolved(c)) => (c.pc = "done" /\ c.status = 404 /\ c.row = 0)
    /\ getUser(c.token) = None => c.user = None
C16_NoWrite ==
  \A c \in inflight' \ inflight : C16_Unresolved(c) => UNCHANGED tables
C16_UnresolvedCallerRejected == [][C16_NoWrite]_vars /\ []C16_Rejected
\* After a release was recorded, a make-donation request of a user without a
\* profile has been answered 404.
C16_Witness ==
  /\ Len(ledger) >= 1
  /\ \E c \in DonationCalls : c.user # None /\ C16_Unresolved(c) /\ c.status = 404

\* C17: a make-donation request that names a project that does not exist
\* fails at its donation insert, on the store's foreign key, with an error
\* response, and the step changes no table: no donation row, no funds change
\* and no ledger entry exist for it.
C17_InsertStep ==
  \A c \in DonationCalls :
    (Stepped(c) /\ c.pc = "d_insert" /\ c.projectId \notin Projects) =>
      /\ After(c).pc = "done" /\ After(c).status >= 400
      /\ After(c).row = 0
      /\ UNCHANGED tables
C17_NoTrace ==
  /\ \A c \in DonationCalls :
       c.projectId \notin Projects => (c.row = 0 /\ c.pc \in {"d_insert", "done"})
  /\ \A i \in 1..Len(donations) : donations[i].project_id \in Projects
  /\ \A i \in 1..Len(ledger) :
       ledger[i].event_type = "donation" => ledger[i].project_id \in Projects
C17_UnknownProjectFails == [][C17_InsertStep]_vars /\ []C17_NoTrace
\* After a donation to p1 was recorded, a donation to the unknown project p0
\* has been answered with an error.
C17_Witness ==
  /\ Len(donations) = 1 /\ Len(ledger) = 1
  /\ \E c \in DonationCalls :
       c.projectId = "p0" /\ c.user # None /\ c.profile # None
       /\ c.pc = "done" /\ c.status = 500

\* C18: only approving votes count. The approving rows of a milestone are
\* counted here from the table itself.
C18_Approvals(m) ==
  Cardinality({i \in 1..Len(validations) :
                 validations[i].milestone_id = m /\ validations[i].is_valid})
\* A COMPLETED milestone has at least APPROVAL_THRESHOLD approving rows, so a
\* milestone with fewer stays PENDING whatever the number of rejecting rows;
\* the count a request acts on never exceeds the approving rows; and a request
\* that raises the approving rows to the threshold completes the milestone.
C18_OnlyApprovalsCount ==
  /\ \A m \in Milestones :
       status[m] = "COMPLETED" => C18_Approvals(m) >= APPROVAL_THRESHOLD
  /\ \A c \in VoteCalls :
       c.pc \in {"v_update", "v_ledger"} =>
         (c.positiveVoteCount <= C18_Approvals(c.milestoneId)
          /\ C18_Approvals(c.milestoneId) >= APPROVAL_THRESHOLD)
  /\ \A c \in VoteCalls :
       (c.pc = "done" /\ c.status = 200 /\ ~c.failed
        /\ C18_Approvals(c.milestoneId) >= APPROVAL_THRESHOLD) =>
          status[c.milestoneId] = "COMPLETED"
\* Votes true, true, false, true on m1: the fourth has completed it.
C18_Witness ==
  /\ Len(validations) = 4
  /\ validations[1].is_valid /\ validations[2].is_valid
  /\ ~validations[3].is_valid /\ validations[4].is_valid
  /\ status["m1"] = "COMPLETED"
  /\ \E i \in Releases("m1") : ledger[i].ref = 4

\* C19: when make-donation's donation insert succeeded and its funds update
\* fails, the request is answered with a 5xx error; the step changes no table,
\* so the donation row stays, funds_raised is not increased and no ledger
\* entry exists for the donation; and the project's funds_raised is then
\* smaller than the sum of its donations.
C19_UpdateFailureStep ==
  \A c \in DonationCalls :
    (Stepped(c) /\ c.pc = "d_update" /\ After(c).failed) =>
      /\ After(c).pc = "done" /\ After(c).status >= 500
      /\ UNCHANGED tables
      /\ c.row \in 1..Len(donations) /\ donations[c.row].amount = c.amount
      /\ DonationEntries(c.row) = {}
      /\ funds_raised'[c.projectId] < SumAmounts(donations', c.projectId)
C19_UpdateFailure == [][C19_UpdateFailureStep]_vars

\* C20: when cast-vote's validation insert succeeded and its count query
\* fails, the request is answered with a 5xx error; the step changes no table,
\* so the validation row stays and the milestone's status and the ledger are
\* as they were, also when the row is the third approving row of its milestone.
C20_CountFailureStep ==
  \A c \in VoteCalls :
    (Stepped(c) /\ c.pc = "v_count" /\ After(c).failed) =>
      /\ After(c).pc = "done" /\ After(c).status >= 500
      /\ ~After(c).milestoneUpdated
      /\ UNCHANGED tables
C20_CountFailureReturned ==
  \A c \in VoteCalls :
    (c.pc = "done" /\ c.row # 0 /\ c.status >= 400) =>
      /\ c.status >= 500
      /\ c.row \in 1..Len(validations)
      /\ validations[c.row].milestone_id = c.milestoneId
      /\ validations[c.row].is_valid = c.isValid
      /\ ~c.milestoneUpdated
      /\ \A i \in Releases(c.milestoneId) : ledger[i].ref # c.row
C20_CountFailure == [][C20_CountFailureStep]_vars /\ []C20_CountFailureReturned
\* The third approval was recorded and its count query failed: the request has
\* been answered 500, m1 is PENDING and the ledger is empty.
C20_Witness ==
  \E c \in VoteCalls :
    /\ c.pc = "done" /\ c.status = 500 /\ c.row # 0
    /\ IsThirdApproval(c)
    /\ status[c.milestoneId] = "PENDING"
    /\ ledger = <<>>

\* C21: the number of approving validation rows of a milestone never drops:
\* every step keeps every row already in the table, with its is_valid value.
C21_Step ==
  /\ \A m \in Milestones : C18_Approvals(m)' >= C18_Approvals(m)
  /\ Len(validations') >= Len(validations)
  /\ \A i \in 1..Len(validations) :
       /\ validations'[i].milestone_id = validations[i].milestone_id
       /\ validations[i].is_valid => validations'[i].is_valid
C21_ApprovalsMonotone == [][C21_Step]_vars
\* A rejecting vote was recorded after two approving ones, which still count.
C21_Witness ==
  /\ Len(validations) >= 3
  /\ C18_Approvals("m1") >= 2
  /\ \E i, j \in 1..Len(validations) :
       i < j /\ validations[i].is_valid /\ ~validations[j].is_valid

\* C22: validation rows and donation rows are immutable once created: every
\* step of either handler leaves every row already in the two tables as it
\* is, in its place; rows are only added after them.
C22_Step ==
  /\ Len(validations') >= Len(validations)
  /\ SubSeq(validations', 1, Len(validations)) = validations
  /\ Len(donations') >= Len(donations)
  /\ SubSeq(donations', 1, Len(donations)) = donations
C22_RowsImmutable == [][C22_Step]_vars
\* A vote and a donation were recorded after the first rows, and both
\* reached the ledger.
C22_Witness ==
  /\ Len(validations) >= 3 /\ Len(donations) >= 1
  /\ \E i, j \in 1..Len(ledger) :
       /\ ledger[i].event_type = "release" /\ ledger[i].ref = 3
       /\ ledger[j].event_type = "donation" /\ ledger[j].ref = 1

\* C23: the two handlers are independent.  A step of a make-donation request
\* leaves validations and every milestone status as they are, appends no
\* 'release' entry and leaves the funds of every project but its own as they
\* are; a step of a cast-vote request leaves donations and every project's
\* funds as they are and appends no 'donation' entry.
C23_Appended == {i \in 1..Len(ledger') : i > Len(ledger)}
C23_Step ==
  \A c \in inflight :
    Stepped(c) =>
      /\ c.op = "make-donation" =>
           /\ UNCHANGED <<validations, status>>
           /\ \A i \in C23_Appended : ledger'[i].event_type # "release"
           /\ \A p \in Projects \ {c.projectId} : funds_raised'[p] = funds_raised[p]
      /\ c.op = "cast-vote" =>
           /\ UNCHANGED <<donations, funds_raised>>
           /\ \A i \in C23_Appended : ledger'[i].event_type # "donation"
C23_HandlersIndependent == [][C23_Step]_vars
\* A donation to p1 and the completing vote on m1 have both run to their end:
\* p2 holds nothing.
C23_Witness ==
  /\ funds_raised["p1"] > 0 /\ funds_raised["p2"] = 0
  /\ status["m1"] = "COMPLETED"
  /\ Len(donations) = 1 /\ Len(validations) = 3 /\ Len(ledger) = 2

\* C24: the server does not look at proofs.  A step of a cast-vote request
\* leaves proofs as they are, and a validation insert that finds the milestone
\* and no earlier vote of the validator fails only on a store error, also when
\* the milestone has no proof; only the validator view asks for a proof: a
\* request it sent belongs to a milestone that has one.
C24_ServerStep ==
  \A c \in VoteCalls :
    Stepped(c) =>
      /\ UNCHANGED proofs
      /\ (c.pc = "v_insert" /\ ~After(c).failed) =>
           /\ Len(validations') = Len(validations) + 1
           /\ validations'[Len(validations')].milestone_id = c.milestoneId
C24_ViewOnly ==
  \A c \in VoteCalls : c.viaView => proofs[c.milestoneId] > 0
C24_ProofNotEnforced == [][C24_ServerStep]_vars /\ []C24_ViewOnly
\* m1 has no proof, three approving votes and is COMPLETED.
C24_Witness ==
  /\ proofs["m1"] = 0
  /\ C18_Approvals("m1") = APPROVAL_THRESHOLD
  /\ status["m1"] = "COMPLETED"
  /\ Releases("m1") # {}

\* C25: every user has exactly one profile row, and its role is the role of
\* the signup metadata, 'donor' when the metadata has none; no two profile
\* rows have the same user_id, and every profile row belongs to a user.
C25_OneProfilePerUser ==
  /\ \A a \in authUsers :
       /\ Cardinality({p \in profiles : p.user_id = a.id}) = 1
       /\ \A p \in profiles :
            p.user_id = a.id => p.role = (IF a.role = None THEN "donor" ELSE a.role)
  /\ \A p, q \in profiles : p.user_id = q.user_id => p = q
  /\ \A p \in profiles : \E a \in authUsers : a.id = p.user_id
  /\ \A a, b \in authUsers : a.id = b.id => a = b
\* Two users have signed up, one without a role and one as validator.
C25_Witness ==
  /\ \E a \in authUsers, p \in profiles :
       a.role = None /\ p.user_id = a.id /\ p.role = "donor"
  /\ \E a \in authUsers, p \in profiles :
       a.role = "validator" /\ p.user_id = a.id /\ p.role = "validator"

\* C26: the ledger never over-reports donations.  Each 'donation' entry names
\* a donation row that exists, with the row's project and amount; no two
\* entries name the same row; and while every donation row has a positive
\* amount, the 'donation' entries of a project sum to at most its funds_raised
\* (all of which was added by donations), which is at most the sum of its rows.
RECURSIVE C26_LedgerSum(_, _)
C26_LedgerSum(n, p) ==
  IF n = 0 THEN 0
  ELSE C26_LedgerSum(n - 1, p)
       + (IF ledger[n].event_type = "donation" /\ ledger[n].project_id = p
          THEN ledger[n].amount ELSE 0)
C26_EntriesOfRows ==
  \A i \in 1..Len(ledger) :
    ledger[i].event_type = "donation" =>
      /\ ledger[i].ref \in 1..Len(donations)
      /\ donations[ledger[i].ref].project_id = ledger[i].project_id
      /\ donations[ledger[i].ref].amount = ledger[i].amount
      /\ \A j \in 1..Len(ledger) :
           (ledger[j].event_type = "donation" /\ ledger[j].ref = ledger[i].ref) => j = i
C26_NoOverReport ==
  /\ C26_EntriesOfRows
  /\ (\A i \in 1..Len(donations) : donations[i].amount > 0) =>
       \A p \in Projects :
         /\ C26_LedgerSum(Len(ledger), p) <= funds_raised[p]
         /\ funds_raised[p] <= SumAmounts(donations, p)
\* Two donations of positive amounts to p1 are recorded and added; the ledger
\* insert of one of them failed, so the ledger reports less than the funds.
C26_Witness ==
  /\ Len(donations) = 2 /\ Len(ledger) = 1
  /\ \A i \in 1..Len(donations) : donations[i].amount > 0 /\ donations[i].project_id = "p1"
  /\ funds_raised["p1"] = SumAmounts(donations, "p1")
  /\ C26_LedgerSum(Len(ledger), "p1") < funds_raised["p1"]

\* C27: each 'release' entry names a milestone that is COMPLETED, holds a
\* positive_votes of at least APPROVAL_THRESHOLD, and names a validation row
\* that exists and is a row of that milestone.
C27_ReleaseEntriesSound ==
  \A i \in 1..Len(ledger) :
    ledger[i].event_type = "release" =>
      /\ ledger[i].milestone_id \in Milestones
      /\ status[ledger[i].milestone_id] = "COMPLETED"
      /\ ledger[i].positive_votes >= APPROVAL_THRESHOLD
      /\ ledger[i].ref \in 1..Len(validations)
      /\ validations[ledger[i].ref].milestone_id = ledger[i].milestone_id
\* Two release entries for m1, written by two requests.
C27_Witness ==
  /\ Cardinality(Releases("m1")) = 2
  /\ \E i, j \in Releases("m1") : ledger[i].ref # ledger[j].ref

\* C28: a milestone that is PENDING with APPROVAL_THRESHOLD or more approving
\* rows is completed by the next cast-vote request on it that records its
\* vote and has no store call fail, be the vote approving or rejecting; and
\* a status changes only in the update step of a cast-vote request that has
\* recorded a vote on the milestone.
C28_Completes ==
  \A c \in VoteCalls :
    (c.pc = "done" /\ c.status = 200 /\ ~c.failed /\ c.row # 0
     /\ C18_Approvals(c.milestoneId) >= APPROVAL_THRESHOLD) =>
      /\ status[c.milestoneId] = "COMPLETED"
      /\ c.milestoneUpdated
C28_OnlyByVote ==
  \A m \in Milestones :
    status'[m] # status[m] =>
      \E c \in VoteCalls :
        /\ Stepped(c) /\ c.pc = "v_update" /\ c.milestoneId = m
        /\ c.row \in 1..Len(validations)
        /\ validations[c.row].milestone_id = m
C28_LateCompletion == [][C28_OnlyByVote]_vars /\ []C28_Completes
\* Three approving votes left m1 PENDING; a fourth, rejecting vote has
\* completed it and written the only release entry.
C28_Witness ==
  /\ Len(validations) = 4
  /\ \A i \in 1..3 : validations[i].is_valid
  /\ ~validations[4].is_valid
  /\ status["m1"] = "COMPLETED"
  /\ Releases("m1") # {}
  /\ \A i \in Releases("m1") : ledger[i].ref = 4

\* C29: a cast-vote request whose validation insert fails, on a store error, on
\* an earlier vote of the validator on the milestone or on a milestone id that
\* names no row, is answered with an error in that step and goes no further:
\* it has no row, reads no count, changes no table, so it neither completes a
\* milestone nor adds a 'release' entry.
C29_InsertStep ==
  \A c \in VoteCalls :
    (Stepped(c) /\ c.pc = "v_insert") =>
      /\ (\/ c.milestoneId \notin Milestones
          \/ \E i \in 1..Len(validations) :
               /\ validations[i].milestone_id = c.milestoneId
               /\ validations[i].validator_id = c.profile) => After(c).failed
      /\ After(c).failed =>
           /\ After(c).pc = "done" /\ After(c).status >= 400
           /\ After(c).row = 0 /\ ~After(c).milestoneUpdated
           /\ After(c).positiveVoteCount = 0
           /\ UNCHANGED tables
C29_NoLaterStep ==
  /\ \A c \in VoteCalls :
       c.row = 0 => (c.pc \in {"v_insert", "done"} /\ ~c.milestoneUpdated
                     /\ c.positiveVoteCount = 0)
  /\ \A i \in 1..Len(validations) : validations[i].milestone_id \in Milestones
  /\ \A i \in 1..Len(ledger) :
       ledger[i].event_type = "release" => ledger[i].ref \in 1..Len(validations)
C29_FailedInsertStops == [][C29_InsertStep]_vars /\ []C29_NoLaterStep
\* With two approvals on m1, a validator who has voted sends an approving
\* vote again: it is answered 500 and m1 is still PENDING.
C29_Witness ==
  /\ C18_Approvals("m1") = 2 /\ Len(validations) = 2
  /\ status["m1"] = "PENDING" /\ ledger = <<>>
  /\ \E c \in VoteCalls :
       /\ c.pc = "done" /\ c.status = 500 /\ c.row = 0 /\ c.isValid
       /\ \E i \in 1..Len(validations) :
            validations[i].validator_id = c.profile /\ validations[i].milestone_id = c.milestoneId

\* C30: make-donation does not depend on the caller's role.  Whenever a
\* request may arrive, the request of a caller of any role can be admitted,
\* with the caller's profile id; and an admitted request that returns with no
\* store call failed has status 200, its donation row, and one ledger entry,
\* with the amount, the project and the profile id it sent, whatever the role.
C30_Admitted(r) ==
  /\ DonationBegin(r.token, r.projectId, r.amount, "none")
  /\ \E d \in inflight' :
       /\ d.token = r.token /\ d.pc = "d_insert"
       /\ \E p \in profiles : p.user_id = r.token /\ p.id = d.profile
C30_AnyRoleAdmitted ==
  Arrival(MaxDonations, 1) =>
    \A r \in RoleDonationRequests : ENABLED C30_Admitted(r)
C30_SameOutcome ==
  \A c \in DonationCalls :
    (c.pc = "done" /\ c.row # 0 /\ ~c.failed) =>
      /\ c.status = 200
      /\ donations[c.row] = [id |-> c.row, donor_id |-> c.profile,
                             project_id |-> c.projectId, amount |-> c.amount]
      /\ \E i \in DonationEntries(c.row) :
           /\ ledger[i].donor_id = c.profile /\ ledger[i].amount = c.amount
           /\ ledger[i].project_id = c.projectId
      /\ Cardinality(DonationEntries(c.row)) = 1
TypeOK ==
  /\ \A a \in authUsers : a.role \in AppRoles \cup {None}
  /\ \A m \in Milestones : proofs[m] \in Nat
  /\ \A p \in Projects : funds_raised[p] \in Int
  /\ \A m \in Milestones : status[m] \in {"PENDING", "COMPLETED"}
  /\ nCalls \in Nat
====
